---- MODULE Spec2Model ----
(***************************************************************************)
(* A model of ui/utils/sort.ts: the kind classifier (typeOf), the value    *)
(* comparator (spaceship, compare), the sort-key parser (parseField), the  *)
(* multi-key sorter (sortBy), the numeric-suffix normalizer                *)
(* (sortableNumericSuffix) and the token search filter (search).           *)
(*                                                                         *)
(* JavaScript strings are sequences of one-character strings.  A JavaScript *)
(* number is a sequence too: <<n>> is the number n and <<>> is NaN, so     *)
(* that arithmetic on NaN is modelled and never confused with an integer.  *)
(* A JavaScript value is a record [k |-> tag, v |-> payload].               *)
(***************************************************************************)
EXTENDS Integers, Sequences, FiniteSets

VARIABLES pc, args, ret, heap

vars == <<pc, args, ret, heap>>

-----------------------------------------------------------------------------
(* Characters and host string primitives                                   *)

LowerLetters ==
  <<"a","b","c","d","e","f","g","h","i","j","k","l","m",
    "n","o","p","q","r","s","t","u","v","w","x","y","z">>

UpperLetters ==
  <<"A","B","C","D","E","F","G","H","I","J","K","L","M",
    "N","O","P","Q","R","S","T","U","V","W","X","Y","Z">>

DigitChars == <<"0","1","2","3","4","5","6","7","8","9">>

Range(s) == { s[i] : i \in DOMAIN s }

IndexOf(s, x) == CHOOSE i \in DOMAIN s : s[i] = x

IsDigit(ch) == ch \in Range(DigitChars)

IsLower(ch) == ch \in Range(LowerLetters)

IsUpper(ch) == ch \in Range(UpperLetters)

\* The UTF-16 code unit of a character.
CharCode(ch) ==
  IF IsDigit(ch) THEN 47 + IndexOf(DigitChars, ch)
  ELSE IF IsUpper(ch) THEN 64 + IndexOf(UpperLetters, ch)
  ELSE IF IsLower(ch) THEN 96 + IndexOf(LowerLetters, ch)
  ELSE CASE ch = " " -> 32
         [] ch = "," -> 44
         [] ch = "/" -> 47
         [] ch = ":" -> 58
         [] ch = "[" -> 91
         [] ch = "]" -> 93

\* String.prototype.toLowerCase on one character.
LowerChar(ch) == IF IsUpper(ch) THEN LowerLetters[IndexOf(UpperLetters, ch)] ELSE ch

toLowerCase(s) == [i \in DOMAIN s |-> LowerChar(s[i])]

IsSpace(ch) == ch = " "

Sign(n) == IF n > 0 THEN 1 ELSE IF n < 0 THEN -1 ELSE 0

Min(m, n) == IF m < n THEN m ELSE n

\* Lexicographic comparison of two integer sequences: -1, 0 or 1.
RECURSIVE LexCmp(_, _)
LexCmp(s, t) ==
  IF s = <<>> THEN (IF t = <<>> THEN 0 ELSE -1)
  ELSE IF t = <<>> THEN 1
  ELSE IF Head(s) # Head(t) THEN Sign(Head(s) - Head(t))
  ELSE LexCmp(Tail(s), Tail(t))

\* The < and > operators of the language on strings: code unit order.
StrCmp(s, t) ==
  LexCmp([i \in DOMAIN s |-> CharCode(s[i])], [i \in DOMAIN t |-> CharCode(t[i])])

\* The collation weight of a character at the primary level (letters without
\* their case, after space, punctuation and digits) ...
Primary(ch) ==
  IF IsDigit(ch) THEN 10 + IndexOf(DigitChars, ch)
  ELSE IF IsUpper(ch) THEN 20 + IndexOf(UpperLetters, ch)
  ELSE IF IsLower(ch) THEN 20 + IndexOf(LowerLetters, ch)
  ELSE CASE ch = " " -> 1
         [] ch = "," -> 2
         [] ch = ":" -> 3
         [] ch = "/" -> 4
         [] ch = "[" -> 5
         [] ch = "]" -> 6

\* ... and at the case level (lower case first).
Tertiary(ch) == IF IsUpper(ch) THEN 1 ELSE 0

\* String.prototype.localeCompare: primary weights decide, case breaks ties.
localeCompare(s, t) ==
  LET p == LexCmp([i \in DOMAIN s |-> Primary(s[i])], [i \in DOMAIN t |-> Primary(t[i])])
  IN  IF p # 0 THEN p
      ELSE LexCmp([i \in DOMAIN s |-> Tertiary(s[i])], [i \in DOMAIN t |-> Tertiary(t[i])])

-----------------------------------------------------------------------------
(* JavaScript values                                                       *)

NaN == <<>>

Num(n) == <<n>>

IsNaN(x) == x = <<>>

Undefined == [k |-> "undefined", v |-> <<>>]

Null == [k |-> "null", v |-> <<>>]

Bool(b) == [k |-> "boolean", v |-> b]

Number(n) == [k |-> "number", v |-> Num(n)]

NumberNaN == [k |-> "number", v |-> NaN]

String(s) == [k |-> "string", v |-> s]

Array(elems) == [k |-> "array", v |-> elems]

\* new Date(t); an invalid Date has the time value NaN.
Date(t) == [k |-> "date", v |-> Num(t)]

InvalidDate == [k |-> "date", v |-> NaN]

Function == [k |-> "function", v |-> <<>>]

\* A regular expression with the given source text.
RegExp(src) == [k |-> "regexp", v |-> src]

\* A FileList holding the given File objects.
FileList(files) == [k |-> "filelist", v |-> files]

\* new Error(): an Error with an empty message.
Error == [k |-> "error", v |-> <<>>]

\* A plain object (also a File, whose tag is not in TYPE_MAP).
Object == [k |-> "object", v |-> <<>>]

\* The completion of a call: a value returned, or a TypeError thrown.
Return(x, how) == [type |-> "normal", value |-> x, via |-> how]

Throw == [type |-> "throw", value |-> 0, via |-> "value"]

-----------------------------------------------------------------------------
(* typeOf, spaceship, compare                                              *)

typeOf(item) == item.k

TYPE_ORDER_KEYS ==
  <<"undefined", "null", "boolean", "number", "string", "array",
    "object", "instance", "function", "class", "date">>

\* TYPE_ORDER[t]: the position of t in the table, and undefined (which the
\* subtraction in spaceship turns into NaN) for a tag the table lacks.
TYPE_ORDER(t) ==
  IF t \in Range(TYPE_ORDER_KEYS) THEN Num(IndexOf(TYPE_ORDER_KEYS, t) - 1) ELSE NaN

\* spaceship on two numbers: the subtraction is NaN when either is.
spaceship(a, b) ==
  IF IsNaN(a) \/ IsNaN(b) THEN 0
  ELSE LET diff == a[1] - b[1]
       IN  (IF diff > 0 THEN 1 ELSE 0) - (IF diff < 0 THEN 1 ELSE 0)

\* ToNumber of the operands that reach `a - b` in compare: a boolean or a
\* number on the left, and on the right the same kind or a kind that
\* TYPE_ORDER lacks (whose string form is not numeric).
ToNumber(x) ==
  CASE x.k = "boolean" -> Num(IF x.v THEN 1 ELSE 0)
    [] x.k = "number" -> x.v
    [] x.k = "date" -> x.v
    [] x.k = "null" -> Num(0)
    [] x.k \in {"undefined", "regexp", "filelist", "error", "object", "function"} -> NaN

\* The decimal digits of a natural number.
RECURSIVE Decimal(_)
Decimal(n) ==
  IF n < 10 THEN <<DigitChars[n + 1]>>
  ELSE Append(Decimal(n \div 10), DigitChars[(n % 10) + 1])

\* String(x), which is also `${x}`: of the operands that reach localeCompare
\* in compare, and of the field values that search reads.
Stringify(x) ==
  CASE x.k = "string" -> x.v
    [] x.k = "undefined" -> <<"u","n","d","e","f","i","n","e","d">>
    [] x.k = "null" -> <<"n","u","l","l">>
    [] x.k = "boolean" -> IF x.v THEN <<"t","r","u","e">> ELSE <<"f","a","l","s","e">>
    [] x.k = "number" -> IF IsNaN(x.v) THEN <<"N","a","N">> ELSE Decimal(x.v[1])
    [] x.k = "regexp" -> <<"/">> \o x.v \o <<"/">>
    [] x.k = "error" -> <<"E","r","r","o","r">>
    [] x.k = "filelist" ->
         <<"[","o","b","j","e","c","t"," ","F","i","l","e","L","i","s","t","]">>

\* x.length: a number for arrays and file lists, undefined otherwise.
LengthOf(x) == IF x.k \in {"array", "filelist"} THEN Num(Len(x.v)) ELSE NaN

\* Math.min(a, b).
MathMin(a, b) == IF IsNaN(a) \/ IsNaN(b) THEN NaN ELSE Num(Min(a[1], b[1]))

\* x.getTime is a function only on a Date.
HasGetTime(x) == x.k = "date"

RECURSIVE compare(_, _)
RECURSIVE CompareElements(_, _, _, _)
RECURSIVE CompareElementsNoLength(_, _, _, _)

\* CompareElements without the rule that the shorter array comes first.
CompareElementsNoLength(a, b, i, len) ==
  IF IsNaN(len) \/ i > len[1] THEN Return(0, "value")
  ELSE LET r == compare(a.v[i], b.v[i])
       IN  IF r.type = "throw" THEN Throw
           ELSE IF r.value # 0 THEN Return(r.value, "value")
           ELSE CompareElementsNoLength(a, b, i + 1, len)

\* The for loop of case 'array', from index i (1-based here).
CompareElements(a, b, i, len) ==
  IF IsNaN(len) \/ i > len[1] THEN Return(spaceship(LengthOf(a), LengthOf(b)), "value")
  ELSE LET r == compare(a.v[i], b.v[i])
       IN  IF r.type = "throw" THEN Throw
           ELSE IF r.value # 0 THEN Return(r.value, "value")
           ELSE CompareElements(a, b, i + 1, len)

compare(a, b) ==
  LET typeA == typeOf(a)
      typeB == typeOf(b)
      res == spaceship(TYPE_ORDER(typeA), TYPE_ORDER(typeB))
  IN  IF res # 0 THEN Return(res, "precedence")
      ELSE CASE typeA \in {"boolean", "number"} ->
                  Return(spaceship(ToNumber(a), ToNumber(b)), "value")
             [] typeA = "string" ->
                  Return(spaceship(Num(localeCompare(a.v, Stringify(b))), Num(0)), "value")
             [] typeA = "array" ->
                  CompareElements(a, b, 1, MathMin(LengthOf(a), LengthOf(b)))
             [] typeA = "date" ->
                  IF HasGetTime(b) THEN Return(spaceship(a.v, b.v), "value") ELSE Throw
             [] OTHER -> Return(0, "default")

-----------------------------------------------------------------------------
(* Bounds of the model                                                     *)

MaxNum == 2

MaxStrLen == 1

MaxArrLen == 2

-----------------------------------------------------------------------------
(* The values compare is called with                                       *)

\* All sequences over S of length at most n.
SeqsUpTo(S, n) == UNION { [1..m -> S] : m \in 0..n }

Numbers == { Number(n) : n \in 0..MaxNum } \cup {NumberNaN}

Strings == { String(s) : s \in SeqsUpTo({"a", "b"}, MaxStrLen) }

Dates == { Date(t) : t \in 0..MaxNum } \cup {InvalidDate}

\* One value or more of every tag typeOf returns.
Scalars ==
  {Undefined, Null, Bool(FALSE), Bool(TRUE), Function, Object, Error,
   RegExp(<<"a">>), FileList(<<>>), FileList(<<Object>>)}
    \cup Numbers \cup Strings \cup Dates

\* The elements of the arrays: one or two values of the kinds compare looks
\* into, a kind TYPE_ORDER lacks, and arrays, so that arrays nest.
Elements ==
  {Number(0), Number(1), NumberNaN, String(<<"a">>), Date(0), RegExp(<<"a">>),
   Array(<<>>), Array(<<Number(1)>>)}

Arrays == { Array(e) : e \in SeqsUpTo(Elements, MaxArrLen) }

Values == Scalars \cup Arrays

-----------------------------------------------------------------------------
(* compare(a, b) on every ordered pair of values                           *)

InitCompare ==
  /\ pc = "call"
  /\ args \in [a : Values, b : Values]
  /\ ret = <<>>
  /\ heap = <<>>

CallCompare ==
  /\ pc = "call"
  /\ ret' = compare(args.a, args.b)
  /\ pc' = "done"
  /\ UNCHANGED <<args, heap>>

NextCompare == CallCompare

SpecCompare == InitCompare /\ [][NextCompare]_vars

Signs == {-1, 0, 1}

\* C3: compare never throws and returns -1, 0 or 1, for every ordered pair
\* of values of all the kinds typeOf returns.
C3_NeverThrows ==
  pc = "done" => ret.type = "normal" /\ ret.value \in Signs

\* The order of kinds as the claim C4 states it.
KindOrder ==
  <<"undefined", "null", "boolean", "number", "string", "array",
    "object", "function", "date">>

\* C4: for values of differing kinds compare returns the sign of the
\* difference of the kinds' precedences, decided by the precedence rule and
\* never by the kind-specific comparison of the values.
C4_KindPrecedence ==
  (pc = "done" /\ typeOf(args.a) # typeOf(args.b)) =>
    /\ ret.type = "normal"
    /\ ret.via = "precedence"
    /\ ({typeOf(args.a), typeOf(args.b)} \subseteq Range(KindOrder) =>
          ret.value = Sign(IndexOf(KindOrder, typeOf(args.a))
                             - IndexOf(KindOrder, typeOf(args.b))))

\* The first index at which the elements of two arrays compare non-zero
\* (or throw), 0 when there is none within the common prefix.
FirstDiff(a, b) ==
  LET common == 1..Min(Len(a.v), Len(b.v))
      differs(i) == compare(a.v[i], b.v[i]).type = "throw"
                      \/ compare(a.v[i], b.v[i]).value # 0
  IN  IF \E i \in common : differs(i)
      THEN CHOOSE i \in common : differs(i) /\ \A j \in 1..(i - 1) : ~differs(j)
      ELSE 0

\* C10: two arrays compare as their elements at the first index where these
\* compare non-zero, and by their lengths when there is no such index.
C10_ArrayOrder ==
  (pc = "done" /\ typeOf(args.a) = "array" /\ typeOf(args.b) = "array") =>
    LET i == FirstDiff(args.a, args.b)
    IN  IF i = 0
        THEN ret.type = "normal"
               /\ ret.value = Sign(Len(args.a.v) - Len(args.b.v))
        ELSE /\ ret.type = compare(args.a.v[i], args.b.v[i]).type
             /\ ret.value = compare(args.a.v[i], args.b.v[i]).value

\* C10 witness: nested arrays that differ at their second element, after a
\* first element of equal arrays.
C10_Witness ==
  /\ pc = "done"
  /\ args.a = Array(<<Array(<<Number(1)>>), Number(0)>>)
  /\ args.b = Array(<<Array(<<Number(1)>>), String(<<"a">>)>>)
  /\ ret.value = -1

-----------------------------------------------------------------------------
(* compare on three values of one kind                                     *)

\* The elements of the arrays compared for transitivity: booleans, numbers
\* (NaN among them) and strings.
PlainElements == {Bool(TRUE), Number(0), Number(1), NumberNaN, String(<<"a">>)}

\* Values of the kinds compare looks into.
OrderedValues ==
  {Bool(FALSE), Bool(TRUE)} \cup Numbers \cup Strings \cup Dates
    \cup { Array(e) : e \in SeqsUpTo(PlainElements, MaxArrLen) }

InitTransitive ==
  /\ pc = "call"
  /\ args \in { t \in [a : OrderedValues, b : OrderedValues, c : OrderedValues] :
                  typeOf(t.a) = typeOf(t.b) /\ typeOf(t.b) = typeOf(t.c) }
  /\ ret = <<>>
  /\ heap = <<>>

CallCompareThree ==
  /\ pc = "call"
  /\ ret' = [ab |-> compare(args.a, args.b),
             bc |-> compare(args.b, args.c),
             ac |-> compare(args.a, args.c)]
  /\ pc' = "done"
  /\ UNCHANGED <<args, heap>>

NextTransitive == CallCompareThree

SpecTransitive == InitTransitive /\ [][NextTransitive]_vars

\* C5: within one kind, compare(a, b) <= 0 and compare(b, c) <= 0 imply
\* compare(a, c) <= 0.
C5_Transitive ==
  (pc = "done" /\ ret.ab.value <= 0 /\ ret.bc.value <= 0) => ret.ac.value <= 0

-----------------------------------------------------------------------------
(* parseField                                                              *)

\* str.split(/:/): the parts of s between the occurrences of sep; part is
\* the part being read.
RECURSIVE SplitFrom(_, _, _)
SplitFrom(s, sep, part) ==
  IF s = <<>> THEN <<part>>
  ELSE IF Head(s) = sep THEN <<part>> \o SplitFrom(Tail(s), sep, <<>>)
  ELSE SplitFrom(Tail(s), sep, Append(part, Head(s)))

split(s, sep) == SplitFrom(s, sep, <<>>)

DescWord == <<"d", "e", "s", "c">>

\* parseField without the test that there are exactly two parts.
parseFieldAnyParts(str) ==
  LET parts == split(str, ":")
  IN  IF parts[Len(parts)] = DescWord
      THEN [field |-> parts[1], reverse |-> TRUE]
      ELSE [field |-> str, reverse |-> FALSE]

parseField(str) ==
  LET parts == split(str, ":")
  IN  IF Len(parts) = 2 /\ parts[2] = DescWord
      THEN [field |-> parts[1], reverse |-> TRUE]
      ELSE [field |-> str, reverse |-> FALSE]

MaxSegments == 3

\* The tokens parseField is given: up to MaxSegments of these pieces, joined.
Segments == {<<"a">>, <<":">>, DescWord, <<"b", ":">>, <<"d", "e", "s">>}

RECURSIVE Concat(_)
Concat(ss) == IF ss = <<>> THEN <<>> ELSE Head(ss) \o Concat(Tail(ss))

Tokens == { Concat(ss) : ss \in SeqsUpTo(Segments, MaxSegments) }

InitParse ==
  /\ pc = "call"
  /\ args \in [str : Tokens]
  /\ ret = <<>>
  /\ heap = <<>>

CallParseField ==
  /\ pc = "call"
  /\ ret' = parseField(args.str)
  /\ pc' = "done"
  /\ UNCHANGED <<args, heap>>

NextParse == CallParseField

SpecParse == InitParse /\ [][NextParse]_vars

\* The number of occurrences of ch in s.
Count(s, ch) == Cardinality({ i \in DOMAIN s : s[i] = ch })

\* s is some text without ':' followed by ":desc".
HasDescSuffix(s) ==
  /\ Count(s, ":") = 1
  /\ Len(s) >= 5
  /\ SubSeq(s, Len(s) - 4, Len(s)) = <<":">> \o DescWord

\* C9: parseField returns reverse = TRUE and the text before the ':' exactly
\* when the token splits on ':' into two parts of which the second is "desc";
\* for every other token reverse = FALSE and the path is the whole token.
C9_ParseField ==
  pc = "done" =>
    IF HasDescSuffix(args.str)
    THEN ret = [field |-> SubSeq(args.str, 1, Len(args.str) - 5), reverse |-> TRUE]
    ELSE ret = [field |-> args.str, reverse |-> FALSE]

\* C9 witness: "b:b:desc" ends in ":desc" and has two ':', so it is a path.
C9_Witness ==
  /\ pc = "done"
  /\ args.str = <<"b", ":", "b", ":">> \o DescWord
  /\ ret.reverse = FALSE

-----------------------------------------------------------------------------
(* sortBy                                                                  *)

\* A record: an object whose payload maps field names to values.
Record(fields) == [k |-> "object", v |-> fields]

\* get(obj, path) of ./object: the value of the field, undefined when the
\* record has no such field.
get(obj, path) == IF path \in DOMAIN obj.v THEN obj.v[path] ELSE Undefined

\* The callback given to sort: the first key on which the two records differ
\* decides, flipped by desc and flipped again by the key's reverse flag.
\* compare does not throw on the field values of the records sorted here
\* (no dates), so its value is used.
RECURSIVE SortCallbackOneFlip(_, _, _, _, _)
\* The callback with the key's reverse flag overriding desc, not flipping it.
SortCallbackOneFlip(objA, objB, keys, desc, i) ==
  IF i > Len(keys) THEN 0
  ELSE LET parsed == parseField(keys[i].v)
           a == get(objA, parsed.field)
           b == get(objB, parsed.field)
           res == compare(a, b).value
       IN  IF res # 0
           THEN (IF parsed.reverse \/ desc THEN -1 ELSE 1) * res
           ELSE SortCallbackOneFlip(objA, objB, keys, desc, i + 1)

RECURSIVE SortCallback(_, _, _, _, _)
SortCallback(objA, objB, keys, desc, i) ==
  IF i > Len(keys) THEN 0
  ELSE LET parsed == parseField(keys[i].v)
           a == get(objA, parsed.field)
           b == get(objB, parsed.field)
           res == compare(a, b).value
       IN  IF res # 0
           THEN (IF parsed.reverse THEN -1 ELSE 1) * ((IF desc THEN -1 ELSE 1) * res)
           ELSE SortCallback(objA, objB, keys, desc, i + 1)

\* Array.prototype.sort, as a stable insertion sort: x goes after the last
\* element of the sorted sequence that the callback does not place after x.
RECURSIVE Insert(_, _, _, _)
Insert(sorted, x, keys, desc) ==
  IF sorted = <<>> THEN <<x>>
  ELSE LET last == sorted[Len(sorted)]
       IN  IF SortCallback(last, x, keys, desc, 1) > 0
           THEN Append(Insert(SubSeq(sorted, 1, Len(sorted) - 1), x, keys, desc), last)
           ELSE Append(sorted, x)

RECURSIVE SortFrom(_, _, _, _)
SortFrom(sorted, rest, keys, desc) ==
  IF rest = <<>> THEN sorted
  ELSE SortFrom(Insert(sorted, Head(rest), keys, desc), Tail(rest), keys, desc)

\* sort orders the array at ref in place.
sort(h, ref, keys, desc) == [h EXCEPT ![ref] = SortFrom(<<>>, h[ref], keys, desc)]

\* slice left out: the array at ref itself.
sliceShared(h, ref) == [heap |-> h, ref |-> ref]

\* slice allocates a new array holding the elements of the array at ref.
slice(h, ref) == [heap |-> Append(h, h[ref]), ref |-> Len(h) + 1]

\* sortBy on the heap h: the heap after the call and the array returned.
sortBy(h, ary, keys, desc) ==
  LET keyList == IF typeOf(keys) # "array" THEN <<keys>> ELSE keys.v
      copy == slice(h, ary)
  IN  [heap |-> sort(copy.heap, copy.ref, keyList, desc), ref |-> copy.ref]

MaxRecords == 3

FieldA == <<"a">>

FieldB == <<"b">>

\* The values of field a: null, a boolean, numbers and a string.
ValuesA == {Null, Bool(TRUE), Number(0), Number(1), String(<<"a">>)}

ValuesB == {Number(0), Number(1)}

\* The record {a: x, b: y}.
RecAB(x, y) == Record([f \in {FieldA, FieldB} |-> IF f = FieldA THEN x ELSE y])

\* Records with both fields, and records without the field a.
Records ==
  { RecAB(x, y) : x \in ValuesA, y \in ValuesB }
    \cup { Record([f \in {FieldB} |-> y]) : y \in ValuesB }

KeyA == String(FieldA)

KeyB == String(FieldB)

KeyADesc == String(FieldA \o <<":">> \o DescWord)

KeyBDesc == String(FieldB \o <<":">> \o DescWord)

\* A key with two ':': the whole token is the path, which no record has.
KeyBB == String(<<"b", ":", "b", ":">> \o DescWord)

\* The keys argument: one token, or a list of tokens.
KeyArgs ==
  {KeyA, KeyADesc,
   Array(<<>>), Array(<<KeyA>>), Array(<<KeyA, KeyB>>), Array(<<KeyADesc, KeyB>>),
   Array(<<KeyA, KeyBDesc>>), Array(<<KeyB, KeyA>>), Array(<<KeyBB, KeyADesc>>),
   Array(<<KeyBDesc, KeyADesc>>)}

InitSort ==
  /\ pc = "call"
  /\ \E input \in SeqsUpTo(Records, MaxRecords) :
       /\ heap = <<input>>
       /\ args \in [ary : {1}, keys : KeyArgs, desc : BOOLEAN]
  /\ ret = <<>>

CallSortBy ==
  /\ pc = "call"
  /\ LET r == sortBy(heap, args.ary, args.keys, args.desc)
     IN  /\ heap' = r.heap
         /\ ret' = r.ref
  /\ pc' = "done"
  /\ UNCHANGED args

NextSort == CallSortBy

SpecSort == InitSort /\ [][NextSort]_vars

\* The path and the suffix flag of a sort key, read off the token.
PathOf(token) ==
  IF HasDescSuffix(token) THEN SubSeq(token, 1, Len(token) - 5) ELSE token

\* The keys argument as a list of tokens.
KeyTokens(keys) ==
  IF typeOf(keys) = "array" THEN [i \in DOMAIN keys.v |-> keys.v[i].v] ELSE <<keys.v>>

\* compare on the values of two records at the path of a key.
CompareAt(x, y, token) == compare(get(x, PathOf(token)), get(y, PathOf(token))).value

\* C6: in the result, for every record x placed before a record y, the first
\* key on which they compare non-zero compares negative when the desc flag
\* and the key's ":desc" suffix are both set or both unset, and positive when
\* exactly one is set.
C6_SortOrder ==
  pc = "done" =>
    LET out == heap[ret]
        tokens == KeyTokens(args.keys)
    IN  \A i, j \in DOMAIN out :
          i < j =>
            \A k \in DOMAIN tokens :
              (/\ CompareAt(out[i], out[j], tokens[k]) # 0
               /\ \A m \in 1..(k - 1) : CompareAt(out[i], out[j], tokens[m]) = 0)
                => IF args.desc = HasDescSuffix(tokens[k])
                   THEN CompareAt(out[i], out[j], tokens[k]) < 0
                   ELSE CompareAt(out[i], out[j], tokens[k]) > 0

\* C6 witness: desc with the keys ["a:desc", "b"]: ascending on a by the
\* double flip, and descending on b among the records that tie on a.
C6_Witness ==
  /\ pc = "done"
  /\ args.desc
  /\ args.keys = Array(<<KeyADesc, KeyB>>)
  /\ heap[args.ary] = <<RecAB(Number(1), Number(0)), RecAB(Number(1), Number(1)),
                        RecAB(Number(0), Number(0))>>
  /\ heap[ret] = <<RecAB(Number(0), Number(0)), RecAB(Number(1), Number(1)),
                   RecAB(Number(1), Number(0))>>

IsPermutation(s, t) ==
  /\ Len(s) = Len(t)
  /\ \A x \in Range(s) \cup Range(t) : Count(s, x) = Count(t, x)

\* C7: a call of sortBy leaves the input array as it was and returns another
\* array, which is a permutation of the input.
C7_InputUntouched ==
  [][(pc = "call" /\ pc' = "done") =>
       /\ heap'[args.ary] = heap[args.ary]
       /\ ret' # args.ary
       /\ IsPermutation(heap'[ret'], heap[args.ary])]_vars

\* C7 witness: a call that reordered three records.
C7_Witness ==
  /\ pc = "done"
  /\ Len(heap[args.ary]) = 3
  /\ heap[ret] # heap[args.ary]

-----------------------------------------------------------------------------
(* sortableNumericSuffix                                                   *)

\* str.split(/([^\d]+)/): the digit runs (empty next to an end of the string
\* that is not a digit) and, captured between them, the runs of other
\* characters, in order. piece is the run being read and inSep tells whether
\* it is a run of non-digits.
RECURSIVE SplitRunsFrom(_, _, _)
SplitRunsFrom(s, piece, inSep) ==
  IF s = <<>> THEN (IF inSep THEN <<piece, <<>>>> ELSE <<piece>>)
  ELSE IF IsDigit(Head(s)) = inSep
       THEN <<piece>> \o SplitRunsFrom(Tail(s), <<Head(s)>>, ~inSep)
       ELSE SplitRunsFrom(Tail(s), Append(piece, Head(s)), inSep)

SplitRuns(s) == SplitRunsFrom(s, <<>>, FALSE)

\* x.match(/^[0-9]+$/)
IsNumeric(x) == x # <<>> /\ \A i \in DOMAIN x : IsDigit(x[i])

\* strPad(str, toLength, padChar) of ./string: str with padChar added on the
\* left up to toLength characters; a longer str is returned as it is.
strPad(str, toLength, padChar) ==
  IF Len(str) >= toLength THEN str
  ELSE [i \in 1..(toLength - Len(str)) |-> padChar] \o str

\* String.prototype.trim
RECURSIVE TrimStart(_)
TrimStart(s) == IF s # <<>> /\ IsSpace(Head(s)) THEN TrimStart(Tail(s)) ELSE s

RECURSIVE TrimEnd(_)
TrimEnd(s) ==
  IF s # <<>> /\ IsSpace(s[Len(s)]) THEN TrimEnd(SubSeq(s, 1, Len(s) - 1)) ELSE s

trim(s) == TrimEnd(TrimStart(s))

PadWidth == 10

\* The callback padding on the right.
PadRunRight(x) ==
  IF IsNumeric(x) /\ Len(x) < PadWidth
  THEN x \o [i \in 1..(PadWidth - Len(x)) |-> "0"]
  ELSE x

\* The callback given to map.
PadRun(x) == IF IsNumeric(x) THEN strPad(x, PadWidth, "0") ELSE x

sortableNumericSuffix(str) ==
  IF typeOf(str) # "string" THEN str
  ELSE LET runs == SplitRuns(str.v)
       IN  String(trim(Concat([i \in DOMAIN runs |-> PadRun(runs[i])])))

MaxSlots == 3

\* Digit runs: short ones, one of PadWidth digits with leading zeros, and one
\* of a digit more.
DigitRuns ==
  {<<"2">>, <<"1", "0">>,
   <<"0", "0", "0", "0", "0", "0", "0", "0", "0", "2">>,
   <<"1", "0", "0", "0", "0", "0", "0", "0", "0", "0", "0">>}

OtherRuns == {<<"a">>, <<" ">>}

\* A slot of a pair of strings: the same text in both, or a digit run in each.
Slots == { <<r, r>> : r \in OtherRuns } \cup (DigitRuns \X DigitRuns)

InitSuffix ==
  /\ pc = "call"
  /\ \E slots \in SeqsUpTo(Slots, MaxSlots) :
       args = [s |-> String(Concat([i \in DOMAIN slots |-> slots[i][1]])),
               t |-> String(Concat([i \in DOMAIN slots |-> slots[i][2]]))]
  /\ ret = <<>>
  /\ heap = <<>>

CallSortableNumericSuffix ==
  /\ pc = "call"
  /\ ret' = [s |-> sortableNumericSuffix(args.s), t |-> sortableNumericSuffix(args.t)]
  /\ pc' = "done"
  /\ UNCHANGED <<args, heap>>

NextSuffix == CallSortableNumericSuffix

SpecSuffix == InitSuffix /\ [][NextSuffix]_vars

\* A digit run without its leading zeros.
RECURSIVE StripZeros(_)
StripZeros(d) == IF d # <<>> /\ Head(d) = "0" THEN StripZeros(Tail(d)) ELSE d

\* The numeric comparison of two digit runs (which may exceed 32-bit
\* integers): the longer run without leading zeros is greater, then digit by digit.
NumCmp(d, e) ==
  LET x == StripZeros(d)
      y == StripZeros(e)
  IN  IF Len(x) # Len(y) THEN Sign(Len(x) - Len(y)) ELSE StrCmp(x, y)

\* Two strings with the same runs of non-digits around digit runs of at most
\* PadWidth digits each.
SameShape(s, t) ==
  LET p == SplitRuns(s)
      q == SplitRuns(t)
  IN  /\ Len(p) = Len(q)
      /\ \A i \in DOMAIN p :
           IF i % 2 = 0 THEN p[i] = q[i]
           ELSE /\ (p[i] = <<>>) = (q[i] = <<>>)
                /\ Len(p[i]) <= PadWidth
                /\ Len(q[i]) <= PadWidth

\* The sign of the numeric comparison of the first digit runs of s and t that
\* differ in value, 0 when all are equal.
FirstRunCmp(s, t) ==
  LET p == SplitRuns(s)
      q == SplitRuns(t)
      differs(i) == i % 2 = 1 /\ NumCmp(p[i], q[i]) # 0
  IN  IF \E i \in DOMAIN p : differs(i)
      THEN LET i == CHOOSE i \in DOMAIN p : differs(i) /\ \A j \in 1..(i - 1) : ~differs(j)
           IN  NumCmp(p[i], q[i])
      ELSE 0

\* The runs of the result against the runs of the trimmed input: a digit run
\* of at most PadWidth digits has become PadWidth characters, zeros and then
\* the run; every other run is as it was.
PaddedRuns(in, out) ==
  LET p == SplitRuns(trim(in))
      q == SplitRuns(out)
  IN  /\ Len(p) = Len(q)
      /\ \A i \in DOMAIN p :
           IF IsNumeric(p[i]) /\ Len(p[i]) <= PadWidth
           THEN /\ Len(q[i]) = PadWidth
                /\ SubSeq(q[i], PadWidth - Len(p[i]) + 1, PadWidth) = p[i]
                /\ \A j \in 1..(PadWidth - Len(p[i])) : q[i][j] = "0"
           ELSE q[i] = p[i]

\* C8: for two strings with the same non-digit runs and digit runs of at most
\* 10 digits, the code-unit order of the normalized forms is the numeric
\* order of the first digit run in which they differ in value; every digit
\* run of at most 10 digits is padded with '0' to 10 characters and longer
\* runs are left as they are.
C8_NumericOrder ==
  pc = "done" =>
    /\ SameShape(args.s.v, args.t.v) =>
         StrCmp(ret.s.v, ret.t.v) = FirstRunCmp(args.s.v, args.t.v)
    /\ PaddedRuns(args.s.v, ret.s.v)
    /\ PaddedRuns(args.t.v, ret.t.v)

\* C8 witness: " a2" against " a10", which the plain order of the inputs
\* gets wrong.
C8_Witness ==
  /\ pc = "done"
  /\ args.s = String(<<" ", "a", "2">>)
  /\ args.t = String(<<" ", "a", "1", "0">>)
  /\ StrCmp(args.s.v, args.t.v) = 1
  /\ StrCmp(ret.s.v, ret.t.v) = -1
  /\ ret.s = String(<<"a", "0", "0", "0", "0", "0", "0", "0", "0", "0", "2">>)

-----------------------------------------------------------------------------
(* search                                                                  *)

\* The end of the separator /\s*[, ]\s*/ that starts at the head of s: the
\* spaces, one comma if it follows them, and the spaces after it. What is
\* returned is the rest of s after the separator.
AfterSeparator(s) ==
  LET rest == TrimStart(s)
  IN  IF rest # <<>> /\ Head(rest) = "," THEN TrimStart(Tail(rest)) ELSE rest

\* query.split(/\s*[, ]\s*/); token is the token being read.
RECURSIVE SplitQueryFrom(_, _)
SplitQueryFrom(s, token) ==
  IF s = <<>> THEN <<token>>
  ELSE IF Head(s) \in {",", " "} THEN <<token>> \o SplitQueryFrom(AfterSeparator(s), <<>>)
  ELSE SplitQueryFrom(Tail(s), Append(token, Head(s)))

SplitQuery(s) == SplitQueryFrom(s, <<>>)

\* String.prototype.substring with both arguments, which are clamped to the
\* string and swapped when out of order; start and end count from 0.
substring(s, start, end) ==
  LET clamp(n) == IF n < 0 THEN 0 ELSE IF n > Len(s) THEN Len(s) ELSE n
      from == Min(clamp(start), clamp(end))
      to == IF clamp(start) > clamp(end) THEN clamp(start) ELSE clamp(end)
  IN  SubSeq(s, from + 1, to)

\* String.prototype.indexOf of a character, from 0; -1 when it is absent.
indexOf(s, ch) ==
  IF ch \in Range(s)
  THEN (CHOOSE i \in DOMAIN s : s[i] = ch /\ \A j \in 1..(i - 1) : s[j] # ch) - 1
  ELSE -1

\* String.prototype.includes
includes(s, t) ==
  \E i \in 0..(Len(s) - Len(t)) : SubSeq(s, i + 1, i + Len(t)) = t

\* The callback given to keys.map: the modifier is cut from field after field
\* has been cut down to the path.
FieldSpec(key) ==
  IF includes(key, <<":">>)
  THEN LET idx == indexOf(key, ":")
           field == substring(key, 0, idx)
           modifier == substring(field, idx + 1, Len(field))
       IN  [field |-> field, modifier |-> modifier]
  ELSE [field |-> key, modifier |-> <<>>]

ExactWord == <<"e", "x", "a", "c", "t">>

\* The loop over the field specs, from spec i: whether the token matches.
RECURSIVE TokenMatches(_, _, _, _)
TokenMatches(row, token, fields, i) ==
  IF i > Len(fields) THEN FALSE
  ELSE LET spec == fields[i]
           val == toLowerCase(Stringify(get(row, spec.field)))
           tokenMatches == IF spec.modifier = ExactWord
                           THEN val = token
                           ELSE includes(val, token)
       IN  IF tokenMatches THEN TRUE ELSE TokenMatches(row, token, fields, i + 1)

\* The loop over the tokens, from token i: whether the row is kept.
RECURSIVE RowMatches(_, _, _, _)
RowMatches(row, tokens, fields, i) ==
  IF i > Len(tokens) THEN FALSE
  ELSE IF TokenMatches(row, tokens[i], fields, 1) THEN TRUE
  ELSE RowMatches(row, tokens, fields, i + 1)

\* The loop over the rows: the rows kept, in order.
RECURSIVE FilterRows(_, _, _)
FilterRows(ary, tokens, fields) ==
  IF ary = <<>> THEN <<>>
  ELSE (IF RowMatches(Head(ary), tokens, fields, 1) THEN <<Head(ary)>> ELSE <<>>)
         \o FilterRows(Tail(ary), tokens, fields)

search(ary, query, keys) ==
  LET q == toLowerCase(trim(IF typeOf(query) = "undefined" THEN <<>> ELSE query.v))
      tokens == SplitQuery(q)
      keyList == IF typeOf(keys) # "array" THEN <<keys>> ELSE keys.v
      fields == [i \in DOMAIN keyList |-> FieldSpec(keyList[i].v)]
  IN  FilterRows(ary, tokens, fields)

MaxRows == 2

MaxQueryLen == 3

\* The rows searched: records with a field a, some with a field b.
Rows ==
  { Record([f \in {FieldA} |-> x]) : x \in {String(<<"A", "b">>), String(<<"b">>), Number(1)} }
    \cup { RecAB(String(<<"A", "b">>), String(<<"c">>)), RecAB(String(<<"a">>), String(<<"b">>)),
           Record([f \in {FieldB} |-> String(<<"a">>)]) }

Queries ==
  { String(q) : q \in SeqsUpTo({"a", "b", "A", ",", " "}, MaxQueryLen) } \cup {Undefined}

KeyAExact == String(FieldA \o <<":">> \o ExactWord)

SearchKeys ==
  {KeyA, KeyAExact, Array(<<>>), Array(<<KeyA, KeyB>>), Array(<<KeyAExact, KeyB>>)}

InitSearch ==
  /\ pc = "call"
  /\ args \in [ary : SeqsUpTo(Rows, MaxRows), query : Queries, keys : SearchKeys]
  /\ ret = <<>>
  /\ heap = <<>>

CallSearch ==
  /\ pc = "call"
  /\ ret' = search(args.ary, args.query, args.keys)
  /\ pc' = "done"
  /\ UNCHANGED <<args, heap>>

NextSearch == CallSearch

SpecSearch == InitSearch /\ [][NextSearch]_vars

\* The tokens of the call's query and the keys of the call, as texts.
QueryTokens == SplitQuery(toLowerCase(trim(Stringify(
                 IF typeOf(args.query) = "undefined" THEN String(<<>>) ELSE args.query))))

\* The field value of a row as search reads it.
FieldText(row, path) == toLowerCase(Stringify(get(row, path)))

\* C1: search keeps a row if and only if every token of the query matches at
\* least one of the given fields. Stated on the calls whose keys carry no
\* modifier, where a token matches a field that contains it, and whose query
\* has no empty token.
C1_EveryToken ==
  (/\ pc = "done"
   /\ \A k \in Range(KeyTokens(args.keys)) : ":" \notin Range(k)
   /\ <<>> \notin Range(QueryTokens)) =>
    LET keep(row) == \A t \in Range(QueryTokens) :
                       \E k \in Range(KeyTokens(args.keys)) : includes(FieldText(row, k), t)
    IN  ret = SelectSeq(args.ary, keep)

\* C2: through the key "a:exact" a token matches a row only when the
\* lowercased text of the field a equals the token. Stated on the queries of
\* one token that is not empty.
C2_ExactKey ==
  (pc = "done" /\ args.keys = KeyAExact /\ Len(QueryTokens) = 1 /\ QueryTokens[1] # <<>>) =>
    LET keep(row) == FieldText(row, FieldA) = QueryTokens[1]
    IN  ret = SelectSeq(args.ary, keep)

====
